---- MODULE Spec2Model ----
(***************************************************************************)
(* A model of mdbook-diagrams: the preprocessor that finds diagram code    *)
(* blocks in a chapter's event stream, renders them through a Kroki        *)
(* service behind a file cache, and rewrites the event stream.             *)
(*                                                                         *)
(* Strings of the program are TLA+ strings; byte vectors (file contents,   *)
(* response bodies) are strings too.                                       *)
(***************************************************************************)
EXTENDS Integers, Sequences, FiniteSets, TLC

VARIABLES
    raw,                  \* the [preprocessor.diagrams] table handed to run
    renderer,             \* ctx.renderer
    pc,                   \* position of the run
    config,               \* the Config built by run
    items,                \* the chapters visited so far by for_each_mut
    error,                \* process: `error`
    input,                \* events the parser has yielded for the open chapter
    open,                 \* parser: the block the parser is inside
    diagram_type,         \* process_chapter: `diagram_type`
    code_block_contents,  \* process_chapter: `code_block_contents`
    events,               \* process_chapter: `events`
    cache,                \* files under the cache directory: path -> file
    dirs,                 \* directories created by create_dir_all
    log,                  \* history: file-system and service operations
    output,               \* what main wrote to stdout
    fnArgs,               \* inputs of a pure function under check
    fnOut,                \* its result
    procs                 \* concurrent invocations of render: where each one is

vars == <<raw, renderer, pc, config, items, error, input, open, diagram_type,
          code_block_contents, events, cache, dirs, log, output, fnArgs, fnOut,
          procs>>

----------------------------------------------------------------------------
\* The element of a one-element set: { e(x) : x \in {v} } binds x to the value v
Only(S) == CHOOSE x \in S : TRUE

(* Strings *)

starts_with(s, p) ==
    /\ Len(p) <= Len(s)
    /\ (Len(p) = 0 \/ SubSeq(s, 1, Len(p)) = p)

strip_prefix(s, p) ==
    IF Len(p) = Len(s) THEN "" ELSE SubSeq(s, Len(p) + 1, Len(s))

UpperChars == {"A", "B", "C", "D", "E", "F", "G", "H", "I", "J", "K", "L", "M",
               "N", "O", "P", "Q", "R", "S", "T", "U", "V", "W", "X", "Y", "Z"}

LowerOf ==
    [c \in UpperChars |->
        CASE c = "A" -> "a" [] c = "B" -> "b" [] c = "C" -> "c" [] c = "D" -> "d"
          [] c = "E" -> "e" [] c = "F" -> "f" [] c = "G" -> "g" [] c = "H" -> "h"
          [] c = "I" -> "i" [] c = "J" -> "j" [] c = "K" -> "k" [] c = "L" -> "l"
          [] c = "M" -> "m" [] c = "N" -> "n" [] c = "O" -> "o" [] c = "P" -> "p"
          [] c = "Q" -> "q" [] c = "R" -> "r" [] c = "S" -> "s" [] c = "T" -> "t"
          [] c = "U" -> "u" [] c = "V" -> "v" [] c = "W" -> "w" [] c = "X" -> "x"
          [] c = "Y" -> "y" [] c = "Z" -> "z"]

RECURSIVE to_lowercase(_)
to_lowercase(s) ==
    IF Len(s) = 0 THEN ""
    ELSE LET c == SubSeq(s, 1, 1)
             r == IF Len(s) = 1 THEN "" ELSE SubSeq(s, 2, Len(s))
         IN  (IF c \in UpperChars THEN LowerOf[c] ELSE c) \o to_lowercase(r)

----------------------------------------------------------------------------
(* DiagramType, DiagramOutputFormat and their Display implementations *)

Mermaid == [tag |-> "Mermaid", s |-> ""]
PlantUml == [tag |-> "PlantUml", s |-> ""]
Other(s) == [tag |-> "Other", s |-> s]
NoneType == [tag |-> "None", s |-> ""]

FormatToString(f) == IF f = "Svg" THEN "svg" ELSE "png"

TypeToString(t) ==
    CASE t.tag = "Mermaid" -> "mermaid"
      [] t.tag = "PlantUml" -> "plantuml"
      [] OTHER -> to_lowercase(t.s)

----------------------------------------------------------------------------
(* The diagram classifier *)

\* a plausible bug: the third arm forgets to test that the tag starts with the
\* prefix
code_lang_diagram_type_no_prefix_test(lang, language_prefix) ==
    IF starts_with(lang, language_prefix \o "mermaid") THEN Mermaid
    ELSE IF starts_with(lang, language_prefix \o "plantuml") THEN PlantUml
    ELSE IF language_prefix # ""
         THEN Other(IF starts_with(lang, language_prefix)
                    THEN strip_prefix(lang, language_prefix) ELSE lang)
    ELSE NoneType

code_lang_diagram_type(lang, language_prefix) ==
    IF starts_with(lang, language_prefix \o "mermaid") THEN Mermaid
    ELSE IF starts_with(lang, language_prefix \o "plantuml") THEN PlantUml
    ELSE IF language_prefix # "" /\ starts_with(lang, language_prefix)
         THEN Other(strip_prefix(lang, language_prefix))
    ELSE NoneType

----------------------------------------------------------------------------
(* Bounds and the input alphabets *)

MaxEvents == 5      \* parser events in the whole book
MaxItems == 2       \* chapters of the book

Langs == {"mermaid", "d-D2"}                    \* info strings of fenced blocks
Texts == {"a", "b"}                             \* literal text of text events
Prolog == "<?xml version=\"1.0\" encoding=\"UTF-8\" standalone=\"no\"?>"
BadBytes == "\\xFF"                             \* a byte vector that is not UTF-8
Bodies == {"<svg>A</svg>", Prolog \o "<svg>B</svg>", BadBytes}
Headers == {"absent", "image/svg+xml", "image/png", "text/plain", "not a mime"}
\* The [preprocessor.diagrams] tables of the model ("absent": the key is not
\* set, or its value is not a string)
RawConfigs ==
    [output_format : {"bmp"}, language_prefix : {"absent", "d-"},
     files_path : {"absent", "/c"}]
    \cup [output_format : {"absent", "svg"}, language_prefix : {"absent", "d-"},
          files_path : {"absent"}]
    \cup [output_format : {"png"}, language_prefix : {"d-"}, files_path : {"/c"}]
Renderers == {"html", "pandoc"}

IsUtf8(bytes) == bytes # BadBytes

----------------------------------------------------------------------------
(* Config: defaults and the parsing done by DiagramsPreprocessor::run *)

temp_dir == "/tmp"

DefaultConfig ==
    [output_format |-> "Png", language_prefix |-> "", filename_prefix |-> "diagram-",
     files_path |-> temp_dir]

\* a plausible bug: an unknown output_format is accepted and the default kept
ValidOutputFormat_any(of) == TRUE

ValidOutputFormat(of) == of \in {"absent", "png", "svg"}

ParseOutputFormat(of) ==
    CASE of = "png" -> "Png"
      [] of = "svg" -> "Svg"
      [] OTHER -> DefaultConfig.output_format

ParseConfig(r) ==
    [output_format |-> ParseOutputFormat(r.output_format),
     language_prefix |-> IF r.language_prefix = "absent"
                         THEN DefaultConfig.language_prefix ELSE r.language_prefix,
     filename_prefix |-> DefaultConfig.filename_prefix,
     files_path |-> IF r.files_path \in {"absent", ""}
                    THEN DefaultConfig.files_path ELSE r.files_path]

----------------------------------------------------------------------------
(* The render cache: key, filename, path, lookup *)

\* The SHA-1 digest is taken as collision-free: it is represented by the bytes
\* fed to the hasher, in the order of the three update calls.
hash(diagram, format, type) ==
    "sha1(" \o diagram \o FormatToString(format) \o TypeToString(type) \o ")"

get_filename(diagram, type, cfg) ==
    cfg.filename_prefix \o hash(diagram, cfg.output_format, type)
        \o "." \o FormatToString(cfg.output_format)

get_tmp_filepath(diagram, type, cfg) ==
    cfg.files_path \o "/" \o get_filename(diagram, type, cfg)

\* a plausible bug: a file that exists but cannot be read counts as an empty entry
fetch_from_tmp_trusts_exists(diagram, type, cfg, files) ==
    LET path == get_tmp_filepath(diagram, type, cfg)
    IN  IF path \in DOMAIN files
        THEN [hit |-> TRUE, path |-> path,
              contents |-> IF files[path].readable THEN files[path].bytes ELSE ""]
        ELSE [hit |-> FALSE, path |-> path, contents |-> ""]

\* a plausible bug: the lookup never finds the file
fetch_from_tmp_always_miss(diagram, type, cfg, files) ==
    [hit |-> FALSE, path |-> get_tmp_filepath(diagram, type, cfg), contents |-> ""]

\* Option<(PathBuf, Vec<u8>)>: hit = FALSE is None
fetch_from_tmp(diagram, type, cfg, files) ==
    LET path == get_tmp_filepath(diagram, type, cfg)
    IN  IF path \in DOMAIN files /\ files[path].readable
        THEN [hit |-> TRUE, path |-> path, contents |-> files[path].bytes]
        ELSE [hit |-> FALSE, path |-> path, contents |-> ""]

\* a plausible bug: the write empties the cache directory first
fs_write_fresh_dir(files, path, bytes) ==
    [p \in {path} |-> [bytes |-> bytes, readable |-> TRUE]]

\* std::fs::write: creates the file, or truncates it and keeps its permissions
fs_write(files, path, bytes) ==
    [p \in DOMAIN files \cup {path} |->
        IF p = path
        THEN [bytes |-> bytes,
              readable |-> IF path \in DOMAIN files THEN files[path].readable ELSE TRUE]
        ELSE files[p]]

----------------------------------------------------------------------------
(* The render client *)

\* What the service may answer to one POST: a transport failure, or a response
\* with a Content-Type header, a body, and a body read that may fail.
Responses ==
    [transport : {"ok"}, header : Headers, body : Bodies, readOk : BOOLEAN]
        \cup [transport : {"error"}, header : {"absent"}, body : {""}, readOk : {FALSE}]

\* a plausible bug: the Mermaid option is sent whatever the renderer
diagram_options_any_renderer(type, rend) ==
    IF type = Mermaid THEN "{\"html-labels\":\"false\"}" ELSE "{}"

diagram_options(type, rend) ==
    IF rend # "html" /\ type = Mermaid THEN "{\"html-labels\":\"false\"}" ELSE "{}"

Request(diagram, type, cfg, rend) ==
    [diagram_source |-> diagram,
     diagram_type |-> TypeToString(type),
     output_format |-> FormatToString(cfg.output_format),
     diagram_options |-> diagram_options(type, rend)]

NoRequest ==
    [diagram_source |-> "", diagram_type |-> "", output_format |-> "",
     diagram_options |-> ""]

\* a plausible bug: a response without Content-Type counts as the default, PNG
ResolveFormat_absent_is_png(header, cfg) ==
    CASE header = "absent" -> "Png"
      [] header = "image/svg+xml" -> "Svg"
      [] header = "image/png" -> "Png"
      [] header = "not a mime" -> "Failed to parse response mime type as MIME type"
      [] OTHER -> "Unexpected response mime type from Kroki service"

\* The format resolved from the response's Content-Type, or the error
ResolveFormat(header, cfg) ==
    CASE header = "absent" -> cfg.output_format
      [] header = "image/svg+xml" -> "Svg"
      [] header = "image/png" -> "Png"
      [] header = "not a mime" -> "Failed to parse response mime type as MIME type"
      [] OTHER -> "Unexpected response mime type from Kroki service"

\* One record of the history per call of render
RenderRecord(diagram, type, path, hit, req, resolved, wrote, ok, bytes) ==
    [diagram |-> diagram, type |-> type, path |-> path, hit |-> hit,
     requested |-> req # NoRequest, req |-> req, resolved |-> resolved,
     wrote |-> wrote, ok |-> ok, bytes |-> bytes]

KrokiErr(diagram, type, path, req, resolved, msg, files) ==
    [ok |-> FALSE, path |-> path, contents |-> "", files |-> files, err |-> msg,
     rec |-> RenderRecord(diagram, type, path, FALSE, req, resolved, FALSE, FALSE,
                          "")]

\* a plausible bug: the resolved format is not compared with the configured one
render_kroki_no_format_check(diagram, type, cfg, rend, resp, writeOk, files) ==
    LET req == Request(diagram, type, cfg, rend)
        path == get_tmp_filepath(diagram, type, cfg)
        resolved == ResolveFormat(resp.header, cfg)
    IN  IF resp.transport # "ok"
        THEN KrokiErr(diagram, type, path, req, "",
                      "Failed to send diagram to Kroki service", files)
        ELSE IF resolved \notin {"Svg", "Png"}
        THEN KrokiErr(diagram, type, path, req, "", resolved, files)
        ELSE IF ~resp.readOk
        THEN KrokiErr(diagram, type, path, req, resolved,
                      "Failed to read diagram response", files)
        ELSE IF ~writeOk
        THEN KrokiErr(diagram, type, path, req, resolved,
                      "Failed to write rendered diagram to temporary file", files)
        ELSE [ok |-> TRUE, path |-> path, contents |-> resp.body,
              files |-> fs_write(files, path, resp.body), err |-> "",
              rec |-> RenderRecord(diagram, type, path, FALSE, req, resolved, TRUE,
                                   TRUE, resp.body)]

render_kroki(diagram, type, cfg, rend, resp, writeOk, files) ==
    LET req == Request(diagram, type, cfg, rend)
        path == get_tmp_filepath(diagram, type, cfg)
        resolved == ResolveFormat(resp.header, cfg)
    IN  IF resp.transport # "ok"
        THEN KrokiErr(diagram, type, path, req, "",
                      "Failed to send diagram to Kroki service", files)
        ELSE IF resolved \notin {"Svg", "Png"}
        THEN KrokiErr(diagram, type, path, req, "", resolved, files)
        ELSE IF resolved # cfg.output_format
        THEN KrokiErr(diagram, type, path, req, resolved,
                      "Kroki service returned unexpected output format", files)
        ELSE IF ~resp.readOk
        THEN KrokiErr(diagram, type, path, req, resolved,
                      "Failed to read diagram response", files)
        ELSE IF ~writeOk
        THEN KrokiErr(diagram, type, path, req, resolved,
                      "Failed to write rendered diagram to temporary file", files)
        ELSE [ok |-> TRUE, path |-> path, contents |-> resp.body,
              files |-> fs_write(files, path, resp.body), err |-> "",
              rec |-> RenderRecord(diagram, type, path, FALSE, req, resolved, TRUE,
                                   TRUE, resp.body)]

\* a plausible bug: the service is asked without looking into the cache
render_always_asks(diagram, type, cfg, rend, resp, writeOk, files) ==
    render_kroki(diagram, type, cfg, rend, resp, writeOk, files)

render(diagram, type, cfg, rend, resp, writeOk, files) ==
    Only({IF got.hit
          THEN [ok |-> TRUE, path |-> got.path, contents |-> got.contents,
                files |-> files, err |-> "",
                rec |-> RenderRecord(diagram, type, got.path, TRUE, NoRequest, "",
                                     FALSE, TRUE, got.contents)]
          ELSE render_kroki(diagram, type, cfg, rend, resp, writeOk, files) :
          got \in {fetch_from_tmp(diagram, type, cfg, files)}})

----------------------------------------------------------------------------
(* Events and output synthesis *)

Ev(t, v) == [t |-> t, v |-> v]
StartFenced(lang) == Ev("Start(CodeBlock(Fenced))", lang)
StartIndented == Ev("Start(CodeBlock(Indented))", "")
EndCodeBlock == Ev("End(CodeBlock)", "")
Rule == Ev("Rule", "")
Text(txt) == Ev("Text", txt)
Html(h) == Ev("Html", h)
StartImage(dest_url) == Ev("Start(Image)", dest_url)
EndImage == Ev("End(Image)", "")

\* str::replace(pat, ""): every occurrence of pat removed, left to right
RECURSIVE remove_all(_, _)
remove_all(s, pat) ==
    IF Len(s) < Len(pat) \/ Len(s) = 0 THEN s
    ELSE IF SubSeq(s, 1, Len(pat)) = pat
    THEN (IF Len(s) = Len(pat) THEN ""
          ELSE remove_all(SubSeq(s, Len(pat) + 1, Len(s)), pat))
    ELSE SubSeq(s, 1, 1)
         \o (IF Len(s) = 1 THEN "" ELSE remove_all(SubSeq(s, 2, Len(s)), pat))

\* BASE64_STANDARD.encode of the byte vectors of the model
base64(bytes) ==
    CASE bytes = "<svg>A</svg>" -> "PHN2Zz5BPC9zdmc+"
      [] bytes = BadBytes -> "/w=="
      [] bytes = Prolog \o "<svg>B</svg>" ->
            "PD94bWwgdmVyc2lvbj0iMS4wIiBlbmNvZGluZz0iVVRGLTgiIHN0YW5kYWxvbmU9Im5vIj8+"
                \o "PHN2Zz5CPC9zdmc+"
      [] OTHER -> "base64(" \o bytes \o ")"

FigureOpen ==
    "<figure style='display: flex;flex-direction: row;justify-content: center;'>"

\* a plausible bug: the renderer is not looked at and an image is always linked
synthesize_always_image(path, contents, cfg, rend) ==
    [status |-> "ok", events |-> <<StartImage(path), EndImage, Text("\n\n")>>]

\* The events process_diagram pushes for a rendered diagram, or the panic of
\* the failed expect("valid utf-8")
synthesize(path, contents, cfg, rend) ==
    IF rend = "html"
    THEN IF cfg.output_format = "Svg"
         THEN IF IsUtf8(contents)
              THEN [status |-> "ok",
                    events |-> <<Html(FigureOpen \o remove_all(contents, Prolog)
                                      \o "</figure>\n\n")>>]
              ELSE [status |-> "panic: valid utf-8", events |-> <<>>]
         ELSE [status |-> "ok",
               events |-> <<Html(FigureOpen \o "<img src=\"data:image/png;base64,"
                                 \o base64(contents)
                                 \o "\" alt=\"rendered diagram\" /></figure>\n\n")>>]
    ELSE [status |-> "ok",
          events |-> <<StartImage(path), EndImage, Text("\n\n")>>]

\* process_diagram: status is "ok", "err" (render failed) or a panic
process_diagram(diagram, type, cfg, rend, evs, resp, writeOk, files) ==
    Only({IF ~r.ok
          THEN [status |-> "err", events |-> evs, files |-> r.files, rec |-> r.rec,
                err |-> "Failed to render diagram: " \o r.err]
          ELSE Only({[status |-> syn.status, events |-> evs \o syn.events,
                      files |-> r.files, rec |-> r.rec, err |-> ""] :
                     syn \in {synthesize(r.path, r.contents, cfg, rend)}}) :
          r \in {render(diagram, type, cfg, rend, resp, writeOk, files)}})

----------------------------------------------------------------------------
(* process_chapter: the handlers of the event loop *)

Some(s) == [some |-> TRUE, s |-> s]
NoContents == [some |-> FALSE, s |-> ""]

NoError == [some |-> FALSE, chapter |-> 0, msg |-> "", diagram |-> ""]

\* Event::Start(Tag::CodeBlock(CodeBlockKind::Fenced(lang)))
on_fenced_start(lang, cfg, contents) ==
    LET t == code_lang_diagram_type(lang, cfg.language_prefix)
    IN  [diagram_type |-> t,
         contents |-> IF t # NoneType THEN Some("") ELSE contents,
         forward |-> t = NoneType]

\* a plausible bug: the text is put in front of the buffer
on_text_prepends(contents, txt) ==
    IF contents.some
    THEN [contents |-> Some(txt \o contents.s), forward |-> FALSE]
    ELSE [contents |-> contents, forward |-> TRUE]

\* a plausible bug: text is eaten whether or not a diagram block is open
on_text_eats_all(contents, txt) ==
    [contents |-> IF contents.some THEN Some(contents.s \o txt) ELSE contents,
     forward |-> FALSE]

\* Event::Text(txt)
on_text(contents, txt) ==
    IF contents.some
    THEN [contents |-> Some(contents.s \o txt), forward |-> FALSE]
    ELSE [contents |-> contents, forward |-> TRUE]

\* a plausible bug: the error of process_diagram is returned without the context
\* that quotes the diagram
on_code_block_end_plain_error(type, contents, cfg, rend, evs, resp, writeOk, files) ==
    IF type = NoneType
    THEN [status |-> "forward", events |-> Append(evs, EndCodeBlock),
          contents |-> contents, files |-> files, recs |-> <<>>, err |-> ""]
    ELSE IF ~contents.some
    THEN [status |-> "panic: can take code block contents", events |-> evs,
          contents |-> NoContents,
          files |-> files, recs |-> <<>>, err |-> ""]
    ELSE Only({[status |-> d.status, events |-> d.events, contents |-> NoContents,
                files |-> d.files, recs |-> <<d.rec>>,
                err |-> IF d.status = "err" THEN d.err ELSE ""] :
               d \in {process_diagram(contents.s, type, cfg, rend, evs, resp,
                                      writeOk, files)}})

\* Event::End(TagEnd::CodeBlock): status is "forward" (not a diagram), the panic
\* of the failed expect("can take code block contents"), or process_diagram's
on_code_block_end(type, contents, cfg, rend, evs, resp, writeOk, files) ==
    IF type = NoneType
    THEN [status |-> "forward", events |-> Append(evs, EndCodeBlock),
          contents |-> contents, files |-> files, recs |-> <<>>, err |-> ""]
    ELSE IF ~contents.some
    THEN [status |-> "panic: can take code block contents", events |-> evs,
          contents |-> NoContents,
          files |-> files, recs |-> <<>>, err |-> ""]
    ELSE Only({[status |-> d.status, events |-> d.events, contents |-> NoContents,
                files |-> d.files, recs |-> <<d.rec>>,
                err |-> IF d.status = "err"
                        THEN "Failed to process diagram in chapter. Failing diagram:\n"
                                 \o contents.s \o ": " \o d.err
                        ELSE ""] :
               d \in {process_diagram(contents.s, type, cfg, rend, evs, resp,
                                      writeOk, files)}})

\* a plausible bug: the closure does not look at `error`
skip_item_never(err) == FALSE

\* process: the check that skips the items after the first error
skip_item(err) == err.some

----------------------------------------------------------------------------
(* The state machine *)

NoConfig ==
    [output_format |-> "", language_prefix |-> "", filename_prefix |-> "",
     files_path |-> ""]

Running == [exit |-> "running", err |-> "", book |-> <<>>]

RECURSIVE SumEvents(_)
SumEvents(its) ==
    IF its = <<>> THEN 0 ELSE Head(its).n + SumEvents(Tail(its))

\* parser events yielded so far in the whole book
Used == SumEvents(items)

Item(kind, status, n) == [kind |-> kind, status |-> status, n |-> n]

\* the item of the open chapter, with its status and one more event
Bump(its, status, k) ==
    [its EXCEPT ![Len(its)] = Item("Chapter", status, @.n + k)]

\* A file someone left at the cache path of the diagram with the empty source:
\* stale bytes that cannot be read
ProbePath(r) ==
    LET cfg == ParseConfig(r)
        lang == IF cfg.language_prefix = "" THEN "mermaid" ELSE "d-D2"
    IN  get_tmp_filepath("", code_lang_diagram_type(lang, cfg.language_prefix), cfg)

InitialCaches(r) ==
    {<<>>, [p \in {ProbePath(r)} |-> [bytes |-> "stale", readable |-> FALSE]]}

Init ==
    /\ raw \in RawConfigs
    /\ renderer \in Renderers
    /\ pc = "run"
    /\ config = NoConfig
    /\ items = <<>>
    /\ error = NoError
    /\ input = <<>>
    /\ open = "none"
    /\ diagram_type = NoneType
    /\ code_block_contents = NoContents
    /\ events = <<>>
    /\ cache \in InitialCaches(raw)
    /\ dirs = {temp_dir} \cup (IF cache = <<>> THEN {} ELSE {ParseConfig(raw).files_path})
    /\ log = <<>>
    /\ output = Running
    /\ fnArgs = <<>>
    /\ fnOut = <<>>
    /\ procs = <<>>

\* the variables of the other specifications
pureVars == <<fnArgs, fnOut, procs>>
chapterVars == <<input, open, diagram_type, code_block_contents, events>>

(* DiagramsPreprocessor::run, up to the call of process *)

RunInvalidFormat ==
    /\ pc = "run"
    /\ ~ValidOutputFormat(raw.output_format)
    /\ pc' = "done"
    /\ output' = [exit |-> "error", book |-> <<>>,
                  err |-> "Invalid output_format: " \o raw.output_format
                              \o ", expected 'png' or 'svg'"]
    /\ UNCHANGED <<raw, renderer, config, items, error, cache, dirs, log>>
    /\ UNCHANGED <<chapterVars, pureVars>>

RunCreateDirFails ==
    /\ pc = "run"
    /\ ValidOutputFormat(raw.output_format)
    /\ raw.files_path \notin {"absent", ""}
    /\ raw.files_path \notin dirs
    /\ pc' = "done"
    /\ output' = [exit |-> "error", book |-> <<>>, err |-> "create_dir_all failed"]
    /\ UNCHANGED <<raw, renderer, config, items, error, cache, dirs, log>>
    /\ UNCHANGED <<chapterVars, pureVars>>

RunProcess ==
    /\ pc = "run"
    /\ ValidOutputFormat(raw.output_format)
    /\ config' = ParseConfig(raw)
    /\ dirs' = IF raw.files_path \in {"absent", ""} THEN dirs
               ELSE dirs \cup {raw.files_path}
    /\ pc' = "book"
    /\ UNCHANGED <<raw, renderer, items, error, cache, log, output>>
    /\ UNCHANGED <<chapterVars, pureVars>>

(* process: book.for_each_mut and the return *)

\* an item that is no chapter (a separator, a part title): the closure does
\* nothing
VisitSeparator ==
    /\ pc = "book"
    /\ UNCHANGED vars

SkipChapter ==
    /\ pc = "book"
    /\ Len(items) < MaxItems
    /\ skip_item(error)
    /\ items' = Append(items, Item("Chapter", "skipped", 0))
    /\ UNCHANGED <<raw, renderer, pc, config, error, cache, dirs, log, output>>
    /\ UNCHANGED <<chapterVars, pureVars>>

BeginChapter ==
    /\ pc = "book"
    /\ Len(items) < MaxItems
    /\ ~skip_item(error)
    /\ items' = Append(items, Item("Chapter", "open", 0))
    /\ pc' = "chapter"
    /\ input' = <<>>
    /\ open' = "none"
    /\ diagram_type' = NoneType
    /\ code_block_contents' = NoContents
    /\ events' = <<>>
    /\ UNCHANGED <<raw, renderer, config, error, cache, dirs, log, output>>
    /\ UNCHANGED pureVars

\* process returns; main serialises the book or fails
FinishProcess ==
    /\ pc = "book"
    /\ pc' = "done"
    /\ output' = IF error.some
                 THEN [exit |-> "error", book |-> <<>>, err |-> error.msg]
                 ELSE [exit |-> "ok", book |-> items, err |-> ""]
    /\ UNCHANGED <<raw, renderer, config, items, error, cache, dirs, log>>
    /\ UNCHANGED <<chapterVars, pureVars>>

(* process_chapter: one step per event the parser yields *)

\* The parser yields well-formed streams: code blocks are balanced and not
\* nested, text lies inside them, thematic breaks between them.
CanStart == open = "none" /\ Used + 2 <= MaxEvents
CanText == open # "none" /\ Used + 2 <= MaxEvents

Consume(e, st, k) ==
    /\ input' = Append(input, e)
    /\ items' = Bump(items, st, k)

OnFencedStart ==
    /\ pc = "chapter"
    /\ CanStart
    /\ \E lang \in Langs :
        LET h == on_fenced_start(lang, config, code_block_contents)
        IN  /\ Consume(StartFenced(lang), "open", 1)
            /\ diagram_type' = h.diagram_type
            /\ code_block_contents' = h.contents
            /\ events' = IF h.forward THEN Append(events, StartFenced(lang))
                         ELSE events
    /\ open' = "fenced"
    /\ UNCHANGED <<raw, renderer, pc, config, error, cache, dirs, log, output>>
    /\ UNCHANGED pureVars

OnText ==
    /\ pc = "chapter"
    /\ CanText
    /\ \E txt \in Texts :
        LET h == on_text(code_block_contents, txt)
        IN  /\ Consume(Text(txt), "open", 1)
            /\ code_block_contents' = h.contents
            /\ events' = IF h.forward THEN Append(events, Text(txt)) ELSE events
    /\ UNCHANGED <<raw, renderer, pc, config, error, open, diagram_type, cache,
                   dirs, log, output>>
    /\ UNCHANGED pureVars

\* every event the match leaves alone
OnOtherEvent ==
    /\ pc = "chapter"
    /\ \E e \in {StartIndented, Rule} :
        /\ IF e = StartIndented
           THEN CanStart /\ open' = "indented"
           ELSE open = "none" /\ Used + 1 <= MaxEvents /\ open' = open
        /\ Consume(e, "open", 1)
        /\ events' = Append(events, e)
    /\ UNCHANGED <<raw, renderer, pc, config, error, diagram_type,
                   code_block_contents, cache, dirs, log, output>>
    /\ UNCHANGED pureVars

OnCodeBlockEnd ==
    /\ pc = "chapter"
    /\ open \in {"fenced", "indented"}
    /\ \E resp \in Responses, writeOk \in BOOLEAN :
        \E h \in {on_code_block_end(diagram_type, code_block_contents, config,
                                    renderer, events, resp, writeOk, cache)} :
            /\ cache' = h.files
            /\ log' = log \o [i \in 1..Len(h.recs) |->
                                  [chapter |-> Len(items), r |-> h.recs[i]]]
            /\ code_block_contents' = h.contents
            /\ events' = h.events
            /\ IF h.status \in {"forward", "ok"}
               THEN /\ Consume(EndCodeBlock, "open", 1)
                    /\ UNCHANGED <<pc, error, output>>
               ELSE IF h.status = "err"
               THEN \* process_chapter returns the error; chapter.content is
                    \* not assigned
                    /\ Consume(EndCodeBlock, "failed", 1)
                    /\ error' = [some |-> TRUE, chapter |-> Len(items),
                                 msg |-> h.err, diagram |-> code_block_contents.s]
                    /\ pc' = "book"
                    /\ UNCHANGED output
               ELSE /\ Consume(EndCodeBlock, "panicked", 1)
                    /\ pc' = "panicked"
                    /\ output' = [exit |-> "panic", book |-> <<>>, err |-> h.status]
                    /\ UNCHANGED error
    /\ open' = "none"
    /\ UNCHANGED <<raw, renderer, config, diagram_type, dirs>>
    /\ UNCHANGED pureVars

\* the parser is exhausted: the events are re-serialised into chapter.content
\* and the locals of process_chapter are dropped
ChapterEnd ==
    /\ pc = "chapter"
    /\ open = "none"
    /\ items' = Bump(items, "rewritten", 0)
    /\ pc' = "book"
    /\ input' = <<>>
    /\ events' = <<>>
    /\ diagram_type' = NoneType
    /\ code_block_contents' = NoContents
    /\ UNCHANGED <<raw, renderer, config, error, open, cache, dirs, log, output>>
    /\ UNCHANGED pureVars

Next ==
    \/ RunInvalidFormat
    \/ RunCreateDirFails
    \/ RunProcess
    \/ VisitSeparator
    \/ SkipChapter
    \/ BeginChapter
    \/ FinishProcess
    \/ OnFencedStart
    \/ OnText
    \/ OnOtherEvent
    \/ OnCodeBlockEnd
    \/ ChapterEnd

Spec == Init /\ [][Next]_vars

----------------------------------------------------------------------------
(* The pure functions, applied to inputs drawn from bounded sets *)

\* the variables of the run, at rest while a pure function is applied
AtRest ==
    /\ raw = [output_format |-> "absent", language_prefix |-> "absent",
              files_path |-> "absent"]
    /\ renderer = "html"
    /\ pc = "pure"
    /\ config = DefaultConfig
    /\ items = <<>>
    /\ error = NoError
    /\ input = <<>>
    /\ open = "none"
    /\ diagram_type = NoneType
    /\ code_block_contents = NoContents
    /\ events = <<>>
    /\ cache = <<>>
    /\ dirs = {temp_dir}
    /\ log = <<>>
    /\ output = Running

runVars == <<raw, renderer, pc, config, items, error, input, open, diagram_type,
             code_block_contents, events, cache, dirs, log, output>>

ClassifyTags ==
    {"mermaid", "plantuml", "diagram-mermaid", "diagram-plantuml", "text", "foo",
     "mermaidx", "plantuml-v2", "Mermaid", "diagram-d2", "diagram-D2", "diagram-",
     "diagram-mermaid2", "x-mermaid", "d", ""}
ClassifyPrefixes == {"", "diagram-", "d", "x-"}

InitClassify ==
    /\ AtRest
    /\ fnArgs \in [lang : ClassifyTags, prefix : ClassifyPrefixes]
    /\ fnOut = <<>>
    /\ procs = <<>>

Classify ==
    /\ fnOut = <<>>
    /\ fnOut' = <<code_lang_diagram_type(fnArgs.lang, fnArgs.prefix)>>
    /\ UNCHANGED <<runVars, fnArgs, procs>>

SpecClassify == InitClassify /\ [][Classify]_vars

\* (source, format, kind) triples; the kinds are those the classifier yields
HashSources == {"", "x", "xpng", "y"}
HashKinds ==
    {code_lang_diagram_type(l, "d-") :
        l \in {"d-mermaid", "d-plantuml", "d-foo", "d-pngfoo", "d-Foo", "d-Mermaid"}}
HashTriples == [source : HashSources, format : {"Png", "Svg"}, kind : HashKinds]

FilenameOf(t) ==
    get_filename(t.source, t.kind, [DefaultConfig EXCEPT !.output_format = t.format])

InitHash ==
    /\ AtRest
    /\ fnArgs \in HashTriples \X HashTriples
    /\ fnOut = <<>>
    /\ procs = <<>>

Filenames ==
    /\ fnOut = <<>>
    /\ fnOut' = <<FilenameOf(fnArgs[1]), FilenameOf(fnArgs[2])>>
    /\ UNCHANGED <<runVars, fnArgs, procs>>

SpecHash == InitHash /\ [][Filenames]_vars

\* One call of render: the diagram, its kind, the configured format, the
\* renderer, and what the cache directory holds at the diagram's path
RenderKinds ==
    {code_lang_diagram_type(l, "d-") :
        l \in {"d-mermaid", "d-plantuml", "d-D2", "d-Mermaid"}}
RenderFiles == {"absent", "entry", "not utf-8", "unreadable"}
RenderArgs ==
    [diagram : {"", "a"}, type : RenderKinds, format : {"Png", "Svg"},
     rend : Renderers, file : RenderFiles]

CfgOf(a) == [DefaultConfig EXCEPT !.output_format = a.format]

FilesOf(a) ==
    IF a.file = "absent"
    THEN <<>>
    ELSE [p \in {get_tmp_filepath(a.diagram, a.type, CfgOf(a))} |->
            [bytes |-> IF a.file = "not utf-8" THEN BadBytes ELSE "stale",
             readable |-> a.file # "unreadable"]]

InitRender ==
    /\ AtRest
    /\ fnArgs \in RenderArgs
    /\ fnOut = <<>>
    /\ procs = <<>>

RenderCall ==
    /\ fnOut = <<>>
    /\ \E resp \in Responses, writeOk \in BOOLEAN :
         fnOut' = <<[resp |-> resp, writeOk |-> writeOk,
                     r |-> render(fnArgs.diagram, fnArgs.type, CfgOf(fnArgs),
                                  fnArgs.rend, resp, writeOk, FilesOf(fnArgs))]>>
    /\ UNCHANGED <<runVars, fnArgs, procs>>

SpecRender == InitRender /\ [][RenderCall]_vars

----------------------------------------------------------------------------
(* Concurrent invocations: several runs of the tool render the same diagram  *)
(* over one cache directory.  One step per system call of render.           *)

MaxInvocations == 2

Invocations == 1..MaxInvocations

\* the run variables but the cache and the history
restVars == <<raw, renderer, pc, config, items, error, input, open, diagram_type,
              code_block_contents, events, dirs, output>>

\* fnArgs is the diagram, its kind, the format, the renderer and the body the
\* service answers with for this payload
RaceArgs ==
    [diagram : {"", "a"}, type : RenderKinds, format : {"Png", "Svg"},
     rend : Renderers, body : Bodies]

RacePath == get_tmp_filepath(fnArgs.diagram, fnArgs.type, CfgOf(fnArgs))

\* one invocation: where it is in render, and what render returned
Proc(at, ok, hit, bytes) == [at |-> at, ok |-> ok, hit |-> hit, bytes |-> bytes]

InitRace ==
    /\ AtRest
    /\ fnArgs \in RaceArgs
    /\ fnOut = <<>>
    /\ procs = [p \in Invocations |-> Proc("exists", FALSE, FALSE, "")]

\* fetch_from_tmp: path.exists()
RaceExists(p) ==
    /\ procs[p].at = "exists"
    /\ procs' = [procs EXCEPT ![p].at =
                    IF RacePath \in DOMAIN cache THEN "read" ELSE "post"]
    /\ UNCHANGED <<restVars, cache, log, fnArgs, fnOut>>

\* fetch_from_tmp: std::fs::read, of what the file holds now
RaceRead(p) ==
    /\ procs[p].at = "read"
    /\ procs' = [procs EXCEPT ![p] =
                    IF RacePath \in DOMAIN cache /\ cache[RacePath].readable
                    THEN Proc("done", TRUE, TRUE, cache[RacePath].bytes)
                    ELSE Proc("post", FALSE, FALSE, "")]
    /\ UNCHANGED <<restVars, cache, log, fnArgs, fnOut>>

\* render_kroki up to the body read: the request, the response and its checks
RacePost(p) ==
    /\ procs[p].at = "post"
    /\ \E resp \in Responses :
         /\ resp.transport = "ok" => resp.body = fnArgs.body
         /\ \E k \in {render_kroki(fnArgs.diagram, fnArgs.type, CfgOf(fnArgs),
                                    fnArgs.rend, resp, TRUE, <<>>)} :
              procs' = [procs EXCEPT ![p] =
                          IF k.ok THEN Proc("create", FALSE, FALSE, k.contents)
                          ELSE Proc("done", FALSE, FALSE, "")]
    /\ UNCHANGED <<restVars, cache, log, fnArgs, fnOut>>

\* std::fs::write: File::create opens the file and truncates it, or fails
RaceCreate(p) ==
    /\ procs[p].at = "create"
    /\ \E writeOk \in BOOLEAN :
         IF writeOk
         THEN /\ cache' = fs_write(cache, RacePath, "")
              /\ procs' = [procs EXCEPT ![p].at = "write_all"]
         ELSE /\ cache' = cache
              /\ procs' = [procs EXCEPT ![p] = Proc("done", FALSE, FALSE, "")]
    /\ UNCHANGED <<restVars, log, fnArgs, fnOut>>

\* std::fs::write: write_all, from the start of the file
RaceWriteAll(p) ==
    /\ procs[p].at = "write_all"
    /\ cache' = fs_write(cache, RacePath, procs[p].bytes)
    /\ procs' = [procs EXCEPT ![p] = Proc("done", TRUE, FALSE, procs[p].bytes)]
    /\ UNCHANGED <<restVars, log, fnArgs, fnOut>>

NextRace ==
    \E p \in Invocations :
        \/ RaceExists(p)
        \/ RaceRead(p)
        \/ RacePost(p)
        \/ RaceCreate(p)
        \/ RaceWriteAll(p)

SpecRace == InitRace /\ [][NextRace]_vars

----------------------------------------------------------------------------
(* Sequential runs: renders one after the other over one cache directory,   *)
(* each run with its own format and renderer.                               *)

MaxRenders == 2     \* renders in all the runs together

CacheKinds ==
    {code_lang_diagram_type(l, "d-") : l \in {"d-mermaid", "d-D2", "d-d2"}}
CacheArgs ==
    [diagram : {"a"}, type : CacheKinds, format : {"Svg"}, rend : Renderers]

\* what the cache directory holds before the first run: nothing, or a file at
\* the path of the Mermaid diagram, an entry or a file that cannot be read
CacheStarts ==
    {<<>>} \cup
    {[p \in {get_tmp_filepath("a", Mermaid, CfgOf([format |-> "Svg"]))} |->
        [bytes |-> "stale", readable |-> rd]] : rd \in BOOLEAN}

InitCache ==
    /\ raw = [output_format |-> "absent", language_prefix |-> "absent",
              files_path |-> "absent"]
    /\ renderer = "html"
    /\ pc = "pure"
    /\ config = DefaultConfig
    /\ items = <<>>
    /\ error = NoError
    /\ input = <<>>
    /\ open = "none"
    /\ diagram_type = NoneType
    /\ code_block_contents = NoContents
    /\ events = <<>>
    /\ dirs = {temp_dir}
    /\ output = Running
    /\ cache \in CacheStarts
    /\ log = <<>>
    /\ fnArgs = <<>>
    /\ fnOut = <<>>
    /\ procs = <<>>

\* one call of render, in some run
CacheRender ==
    /\ Len(log) < MaxRenders
    /\ \E a \in CacheArgs, resp \in Responses, writeOk \in BOOLEAN :
         \E r \in {render(a.diagram, a.type, CfgOf(a), a.rend, resp, writeOk,
                          cache)} :
            /\ cache' = r.files
            /\ log' = Append(log, [chapter |-> 0, r |-> r.rec, a |-> a])
    /\ UNCHANGED <<restVars, pureVars>>

SpecCache == InitCache /\ [][CacheRender]_vars

----------------------------------------------------------------------------
(* Claims about the pure functions *)

\* C4: under a fixed filename prefix and cache directory, and with the digest
\* collision-free on its input bytes, get_filename gives two (source, format,
\* kind) triples the same filename exactly when the triples are equal.
C4_FilenameInjective ==
    fnOut # <<>> => ((fnOut[1] = fnOut[2]) <=> (fnArgs[1] = fnArgs[2]))

\* C5: code_lang_diagram_type returns Mermaid only for the tag prefix + "mermaid"
\* and PlantUml only for the tag prefix + "plantuml"; with an empty prefix every
\* other tag is classified as None.
C5_ExactTagOnly ==
    fnOut # <<>> =>
        /\ fnOut[1] = Mermaid => fnArgs.lang = fnArgs.prefix \o "mermaid"
        /\ fnOut[1] = PlantUml => fnArgs.lang = fnArgs.prefix \o "plantuml"
        /\ (fnArgs.prefix = "" /\ fnArgs.lang \notin {"mermaid", "plantuml"})
              => fnOut[1] = NoneType

C6_Vectors ==
    {[lang |-> "mermaid", prefix |-> "", out |-> Mermaid],
     [lang |-> "plantuml", prefix |-> "", out |-> PlantUml],
     [lang |-> "diagram-mermaid", prefix |-> "diagram-", out |-> Mermaid],
     [lang |-> "text", prefix |-> "", out |-> NoneType],
     [lang |-> "foo", prefix |-> "diagram-", out |-> NoneType]}

\* C6: with a non-empty prefix, a tag that does not start with the prefix is
\* classified as None; and the five listed vectors hold.
C6_PrefixMismatchIsNone ==
    fnOut # <<>> =>
        /\ (fnArgs.prefix # "" /\ ~starts_with(fnArgs.lang, fnArgs.prefix))
              => fnOut[1] = NoneType
        /\ \A v \in C6_Vectors :
              (fnArgs.lang = v.lang /\ fnArgs.prefix = v.prefix) => fnOut[1] = v.out

\* C6 witness: the classifier has run on a tag that lacks the non-empty prefix
C6_Witness ==
    /\ fnOut = <<NoneType>>
    /\ fnArgs = [lang |-> "foo", prefix |-> "diagram-"]

----------------------------------------------------------------------------
(* Claims about the event rewriter *)

IsDiagramStart(e) ==
    /\ e.t = "Start(CodeBlock(Fenced))"
    /\ code_lang_diagram_type(e.v, config.language_prefix) # NoneType

NoDiagramIn(inp) == \A i \in 1..Len(inp) : ~IsDiagramStart(inp[i])

Replacement == Ev("replacement of a diagram block", "")

\* What the rewriter should forward for the events inp[i..]: everything but the
\* start, text and end events of diagram blocks, each closed diagram block
\* giving way to its replacement
RECURSIVE Expected(_, _, _)
Expected(inp, i, inDiagram) ==
    IF i > Len(inp) THEN <<>>
    ELSE IF ~inDiagram
    THEN IF IsDiagramStart(inp[i]) THEN Expected(inp, i + 1, TRUE)
         ELSE <<inp[i]>> \o Expected(inp, i + 1, FALSE)
    ELSE IF inp[i].t = "Text" THEN Expected(inp, i + 1, TRUE)
    ELSE IF inp[i] = EndCodeBlock THEN <<Replacement>> \o Expected(inp, i + 1, FALSE)
    ELSE <<inp[i]>> \o Expected(inp, i + 1, TRUE)

\* The output events evs[i..] with each group of synthesized events (one Html
\* event, or Start(Image), End(Image), Text("\n\n")) shown as a replacement
RECURSIVE Collapsed(_, _)
Collapsed(evs, i) ==
    IF i > Len(evs) THEN <<>>
    ELSE IF evs[i].t = "Html" THEN <<Replacement>> \o Collapsed(evs, i + 1)
    ELSE IF /\ evs[i].t = "Start(Image)"
            /\ i + 2 <= Len(evs)
            /\ evs[i + 1] = EndImage
            /\ evs[i + 2] = Text("\n\n")
    THEN <<Replacement>> \o Collapsed(evs, i + 3)
    ELSE <<evs[i]>> \o Collapsed(evs, i + 1)

\* C1: while process_chapter consumes a well-formed stream (and no render has
\* failed), the events forwarded so far are exactly the consumed events outside
\* diagram blocks, in order, with the replacement at the place of each diagram
\* block.  This covers the step that consumes an event and panics on it.
C1_NonDiagramEventsForwarded ==
    (\/ pc = "chapter"
     \/ pc = "panicked" /\ output.err = "panic: can take code block contents")
        => Collapsed(events, 1) = Expected(input, 1, FALSE)

\* C2: while process_chapter consumes a stream in which no fenced block is
\* classified as a diagram, the events collected for the re-serializer are the
\* consumed events, and the chapter has caused no cache lookup, cache write or
\* service request.
C2_NoDiagramIdentity ==
    (pc = "chapter" /\ NoDiagramIn(input)) =>
        /\ events = input
        /\ \A i \in 1..Len(log) : log[i].chapter # Len(items)

\* C2 witness: a whole chapter with a fenced block that is no diagram, and text
C2_Witness ==
    /\ pc = "chapter"
    /\ open = "none"
    /\ NoDiagramIn(input)
    /\ \E i \in 1..Len(input) : input[i].t = "Start(CodeBlock(Fenced))"
    /\ \E i \in 1..Len(input) : input[i].t = "Text"
    /\ events = input

----------------------------------------------------------------------------
(* Claims about the cache and the render client *)

SameKey(a, b) == a.diagram = b.diagram /\ a.type = b.type

Unreadable(path) == path \in DOMAIN cache /\ ~cache[path].readable

SecondRenderHits(i, j) ==
    /\ log[j].r.ok
    /\ log[j].r.path = log[i].r.path
    /\ log[j].r.bytes = log[i].r.bytes
    /\ ~log[j].r.requested

\* C3 as stated: after a successful render, a later render of the same (source,
\* kind, format) in the run returns the same path and bytes and sends no
\* request.
C3_SecondRenderHits ==
    \A i, j \in 1..Len(log) :
        (i < j /\ SameKey(log[i].r, log[j].r) /\ log[i].r.ok)
            => SecondRenderHits(i, j)

\* C3 amended: the same, provided the file at the cache path is not one that
\* exists but cannot be read.
C3_SecondRenderHitsIfReadable ==
    \A i, j \in 1..Len(log) :
        (i < j /\ SameKey(log[i].r, log[j].r) /\ log[i].r.ok
            /\ ~Unreadable(log[i].r.path))
            => SecondRenderHits(i, j)

\* C3 witness: a render that asked the service, and a later hit on its key
C3_Witness ==
    \E i, j \in 1..Len(log) :
        /\ i < j
        /\ SameKey(log[i].r, log[j].r)
        /\ log[i].r.ok /\ log[i].r.requested
        /\ log[j].r.hit

\* a step of process_chapter in which render has returned Ok for the open block
Rendered ==
    /\ pc = "chapter"
    /\ Len(log') = Len(log) + 1
    /\ log'[Len(log')].r.ok

\* the cache path of the open diagram block
CachePath ==
    config.files_path \o "/" \o config.filename_prefix
        \o hash(code_block_contents.s, config.output_format, diagram_type)
        \o "." \o FormatToString(config.output_format)

\* the step pushes the replacement events, and nothing else, onto `events`
PushesReplacement ==
    IF renderer = "html"
    THEN /\ Len(events') = Len(events) + 1
         /\ SubSeq(events', 1, Len(events)) = events
         /\ events'[Len(events')].t = "Html"
    ELSE events' = events \o <<StartImage(CachePath), EndImage, Text("\n\n")>>

\* the step consumes the start event of a diagram block and forwards nothing
EatsDiagramStart ==
    (/\ pc = "chapter"
     /\ Len(input') = Len(input) + 1
     /\ IsDiagramStart(input'[Len(input')]))
        => events' = events

\* the bytes render returned in this step can be decoded where they have to be
Decodable ==
    ~(/\ renderer = "html"
      /\ config.output_format = "Svg"
      /\ ~IsUtf8(log'[Len(log')].r.bytes))

\* C7 as stated: for every diagram block whose render succeeds, process_diagram
\* pushes one Html event when the renderer is "html" and otherwise Start(Image)
\* with the cache path, End(Image), Text("\n\n"); the block's start and end
\* events are not forwarded.
C7_ReplacementEvents ==
    [][(Rendered => PushesReplacement) /\ EatsDiagramStart]_vars

\* C7 amended: the same, except when the renderer is "html", the format is Svg
\* and the rendered bytes are not valid UTF-8 (process_diagram then panics).
C7_ReplacementEventsIfDecodable ==
    [][((Rendered /\ Decodable) => PushesReplacement) /\ EatsDiagramStart]_vars

\* C7 witness: an Svg diagram has been replaced by one Html event
C7_Witness ==
    /\ pc = "chapter"
    /\ renderer = "html"
    /\ config.output_format = "Svg"
    /\ Len(events) = 1
    /\ events[1].t = "Html"
    /\ input = <<StartFenced("mermaid"), Text("a"), EndCodeBlock>>

\* the response of a request resolved to a format that was not the configured
Mismatch(r) ==
    /\ r.requested
    /\ r.resolved \in {"Svg", "Png"}
    /\ r.resolved # config.output_format

\* C8: a render whose response resolves to another format than the configured
\* one fails and leaves every cache file as it was; a render writes a cache file
\* only for a response resolved to the configured format, at the key's path.
C8_NoWriteOnMismatch ==
    [][Len(log') = Len(log) + 1 =>
        LET r == log'[Len(log')].r
        IN  /\ Mismatch(r) => (~r.ok /\ ~r.wrote /\ cache' = cache)
            /\ r.wrote =>
                  /\ r.resolved = config.output_format
                  /\ r.path = get_tmp_filepath(r.diagram, r.type, config)
                  /\ cache'[r.path].bytes = r.bytes
                  /\ \A q \in DOMAIN cache : q # r.path => cache'[q] = cache[q]
            /\ ~r.wrote => cache' = cache]_vars

\* C8 witness: a response in the other format has been turned down
C8_Witness ==
    \E i \in 1..Len(log) : Mismatch(log[i].r) /\ ~log[i].r.ok /\ error.some

----------------------------------------------------------------------------
(* Claims about the run *)

\* C9: once a chapter has failed, no later chapter is processed: the error, the
\* cache and the history stay as they are, no chapter is entered, the later
\* chapters are skipped, and the run ends with the first error and no book.
C9_FirstErrorAborts ==
    /\ [](error.some =>
            /\ error.chapter \in 1..Len(items)
            /\ \A k \in 1..Len(items) :
                  items[k].status = (IF k < error.chapter THEN "rewritten"
                                     ELSE IF k = error.chapter THEN "failed"
                                     ELSE "skipped")
            /\ pc \in {"book", "done"}
            /\ output.book = <<>>
            /\ pc = "done" => (output.exit = "error" /\ output.err = error.msg))
    /\ [][error.some => (error' = error /\ log' = log /\ cache' = cache
                            /\ input' = input /\ events' = events)]_vars

\* C9 witness: the first chapter failed, the second was skipped, the run failed
C9_Witness ==
    /\ pc = "done"
    /\ error.some /\ error.chapter = 1
    /\ Len(items) = 2 /\ items[2].status = "skipped"
    /\ output.exit = "error"

\* C10: with an output_format string other than "png" and "svg", run fails
\* before anything else happens: no directory is created, no cache file is read
\* or written, no request is sent, no chapter is visited.
C10_InvalidFormatFailsFirst ==
    /\ []((raw.output_format \notin {"absent", "png", "svg"} /\ pc # "run") =>
            /\ pc = "done"
            /\ output.exit = "error"
            /\ items = <<>>
            /\ log = <<>>)
    /\ [][raw.output_format \notin {"absent", "png", "svg"} =>
            (dirs' = dirs /\ cache' = cache /\ log' = log /\ config' = config)]_vars

\* C10 witness: run has failed on "bmp" with a cache directory configured
C10_Witness ==
    /\ pc = "done"
    /\ raw.output_format = "bmp"
    /\ raw.files_path = "/c"
    /\ "/c" \notin dirs
    /\ output.exit = "error"

\* C13: for a non-empty prefix and a tag that starts with it and whose remainder
\* after the prefix is neither "mermaid" nor "plantuml", code_lang_diagram_type
\* returns Other carrying the remainder, and the diagram-type string of the
\* request and of the cache key is that remainder lowercased.
C13_OtherCarriesStrippedTag ==
    (/\ fnOut # <<>>
     /\ fnArgs.prefix # ""
     /\ starts_with(fnArgs.lang, fnArgs.prefix)
     /\ strip_prefix(fnArgs.lang, fnArgs.prefix) \notin {"mermaid", "plantuml"})
        => /\ fnOut[1] = Other(strip_prefix(fnArgs.lang, fnArgs.prefix))
           /\ TypeToString(fnOut[1])
                 = to_lowercase(strip_prefix(fnArgs.lang, fnArgs.prefix))

----------------------------------------------------------------------------
(* Claims about the state of the rewriter *)

\* the consumed events end inside a diagram block: after its start, before its end
InDiagramBlock(inp) ==
    \E i \in 1..Len(inp) :
        /\ IsDiagramStart(inp[i])
        /\ \A j \in (i + 1)..Len(inp) : inp[j] # EndCodeBlock

\* C14: outside diagram blocks, so after the end event of each diagram block
\* and until the start of the next one, the rewriter is idle: no diagram kind is
\* recorded and no buffer is open.
C14_IdleAfterDiagramEnd ==
    (pc = "chapter" /\ ~InDiagramBlock(input)) =>
        /\ diagram_type = NoneType
        /\ code_block_contents = NoContents

\* The sources of the diagram blocks closed in inp[i..]: of each block, its
\* text events concatenated in order
RECURSIVE BlockSources(_, _, _, _)
BlockSources(inp, i, inDiagram, buf) ==
    IF i > Len(inp) THEN <<>>
    ELSE IF ~inDiagram
    THEN BlockSources(inp, i + 1, IsDiagramStart(inp[i]), "")
    ELSE IF inp[i].t = "Text" THEN BlockSources(inp, i + 1, TRUE, buf \o inp[i].v)
    ELSE IF inp[i] = EndCodeBlock
    THEN <<buf>> \o BlockSources(inp, i + 1, FALSE, "")
    ELSE BlockSources(inp, i + 1, TRUE, buf)

TextsOf(evs) == SelectSeq(evs, LAMBDA e : e.t = "Text")

\* the chapter whose events `input` holds
ChapterOfInput == IF error.some THEN error.chapter ELSE Len(items)

\* the sources passed to render for chapter k, in order
RenderedSources(k) ==
    LET recs == SelectSeq(log, LAMBDA e : e.chapter = k)
    IN  [i \in 1..Len(recs) |-> recs[i].r.diagram]

\* C15: a text event is suppressed exactly when it lies between the start and
\* the end of a diagram block, all other text events are forwarded (those after
\* the end of a diagram block too), and the source passed to render at the end
\* of a block is the concatenation, in order, of that block's text events only.
C15_TextBuffering ==
    (pc \in {"chapter", "panicked"} \/ error.some) =>
        /\ TextsOf(Collapsed(events, 1)) = TextsOf(Expected(input, 1, FALSE))
        /\ RenderedSources(ChapterOfInput) = BlockSources(input, 1, FALSE, "")

\* C15 witness: a diagram block of two text events has been rendered from their
\* concatenation and neither text was forwarded
C15_Witness ==
    /\ pc = "chapter"
    /\ Len(input) = 4
    /\ IsDiagramStart(input[1])
    /\ input[2] = Text("a")
    /\ input[3] = Text("b")
    /\ input[4] = EndCodeBlock
    /\ RenderedSources(Len(items)) = <<"ab">>
    /\ TextsOf(Collapsed(events, 1)) = <<>>

\* sub occurs in s
Contains(s, sub) ==
    \/ Len(sub) = 0
    \/ \E i \in 1..(Len(s) - Len(sub) + 1) : SubSeq(s, i, i + Len(sub) - 1) = sub

\* C16: when the render of a diagram block fails, process_chapter consumes
\* nothing after the block's end event, the chapter's content is not replaced,
\* and the error it returns contains the source buffered for the block, after
\* the words "Failing diagram:".
C16_RenderFailureStopsChapter ==
    error.some =>
        LET srcs == BlockSources(input, 1, FALSE, "")
            k == error.chapter
        IN  /\ input # <<>>
            /\ input[Len(input)] = EndCodeBlock
            /\ items[k].n = Len(input)
            /\ items[k].status = "failed"
            /\ log # <<>>
            /\ log[Len(log)].chapter = k
            /\ ~log[Len(log)].r.ok
            /\ srcs # <<>>
            /\ log[Len(log)].r.diagram = srcs[Len(srcs)]
            /\ Contains(error.msg, "Failing diagram:\n" \o srcs[Len(srcs)])

\* C16 witness: the render of a block whose source is "a" failed and the run
\* went on to its end
C16_Witness ==
    /\ error.some
    /\ pc = "done"
    /\ BlockSources(input, 1, FALSE, "") = <<"a">>
    /\ Contains(error.msg, "Failing diagram:\na")

\* requests sent by the call of render recorded in r: render_kroki posts once
RequestsOf(r) == IF r.requested THEN 1 ELSE 0

\* the i-th render of the run finds an entry: an earlier render of the run wrote
\* the file at its path, and the file can be read
FindsEntry(i) ==
    \E j \in 1..(i - 1) :
        /\ log[j].r.wrote
        /\ log[j].r.path = log[i].r.path
        /\ cache[log[i].r.path].readable

\* C17: the service is contacted only on a cache miss and at most once per
\* diagram block: a render that finds an entry sends no request, any other
\* render sends exactly one, each closed diagram block is rendered once, and
\* nothing is rendered after a render that failed.
C17_RequestOnlyOnMiss ==
    /\ \A i \in 1..Len(log) :
          /\ log[i].r.hit <=> FindsEntry(i)
          /\ RequestsOf(log[i].r) = (IF FindsEntry(i) THEN 0 ELSE 1)
          /\ log[i].r.hit => log[i].r.req = NoRequest
          /\ ~log[i].r.ok => i = Len(log)
    /\ (pc \in {"chapter", "panicked"} \/ error.some) =>
          Len(RenderedSources(ChapterOfInput))
              = Len(BlockSources(input, 1, FALSE, ""))

\* C17 witness: the first block of a chapter was rendered by the service, the
\* second, with the same key, from the cache, and nothing was asked for it
C17_Witness ==
    /\ pc = "chapter"
    /\ Len(BlockSources(input, 1, FALSE, "")) = 2
    /\ Len(log) = 2
    /\ RequestsOf(log[1].r) = 1
    /\ log[1].r.wrote
    /\ log[2].r.path = log[1].r.path
    /\ RequestsOf(log[2].r) = 0
    /\ log[2].r.bytes = log[1].r.bytes

\* C22: whenever the end event of a code block is about to be handled while a
\* diagram kind is recorded, a buffer is open, so that the expect of "can take
\* code block contents" never fails and process_chapter does not panic on it.
C22_TakeNeverFails ==
    /\ (pc = "chapter" /\ open # "none" /\ diagram_type # NoneType)
          => code_block_contents.some
    /\ ~(pc = "panicked" /\ output.err = "panic: can take code block contents")

----------------------------------------------------------------------------
(* Claims about one call of render *)

\* C11: render_kroki resolves the format of the response from its Content-Type:
\* no header gives the configured format, image/svg+xml gives Svg, image/png
\* gives Png, any other or unparseable header is an error; and it returns Ok
\* only when the resolved format is the configured one.
C11_FormatResolution ==
    fnOut # <<>> =>
        LET o == fnOut[1]
            rec == o.r.rec
        IN  (rec.requested /\ o.resp.transport = "ok") =>
                /\ o.resp.header = "absent" => rec.resolved = fnArgs.format
                /\ o.resp.header = "image/svg+xml" => rec.resolved = "Svg"
                /\ o.resp.header = "image/png" => rec.resolved = "Png"
                /\ o.resp.header \notin {"absent", "image/svg+xml", "image/png"}
                      => ~o.r.ok /\ rec.resolved = "" /\ o.r.err # ""
                /\ o.r.ok => rec.resolved = fnArgs.format

C11_Witness ==
    /\ fnOut # <<>>
    /\ fnArgs.format = "Svg"
    /\ fnOut[1].r.rec.requested
    /\ fnOut[1].resp.transport = "ok"
    /\ fnOut[1].resp.header = "absent"
    /\ fnOut[1].r.ok
    /\ fnOut[1].r.rec.resolved = "Svg"

\* C12: the diagram_options of a request are empty unless the kind is Mermaid
\* and the renderer is not "html"; then they are exactly html-labels = "false".
C12_DiagramOptions ==
    (fnOut # <<>> /\ fnOut[1].r.rec.requested) =>
        fnOut[1].r.rec.req.diagram_options =
            IF fnArgs.type = Mermaid /\ fnArgs.rend # "html"
            THEN "{\"html-labels\":\"false\"}"
            ELSE "{}"

C12_Witness ==
    /\ fnOut # <<>>
    /\ fnOut[1].r.rec.requested
    /\ fnArgs.type = Mermaid
    /\ fnArgs.rend = "pandoc"
    /\ fnOut[1].r.rec.req.diagram_options = "{\"html-labels\":\"false\"}"

\* C18: fetch_from_tmp never fails: a missing or an unreadable cache file is a
\* miss and render falls through to render_kroki; the bytes of a readable file
\* are the result of render as they are, valid image or not.
C18_LookupNeverFails ==
    fnOut # <<>> =>
        LET o == fnOut[1]
            files == FilesOf(fnArgs)
        IN  IF fnArgs.file \in {"absent", "unreadable"}
            THEN /\ o.r.rec.requested
                 /\ ~o.r.rec.hit
                 /\ o.r = render_kroki(fnArgs.diagram, fnArgs.type, CfgOf(fnArgs),
                                       fnArgs.rend, o.resp, o.writeOk, files)
            ELSE /\ o.r.ok
                 /\ o.r.err = ""
                 /\ ~o.r.rec.requested
                 /\ o.r.contents = files[o.r.path].bytes
                 /\ o.r.files = files

C18_Witness ==
    /\ fnOut # <<>>
    /\ fnArgs.file = "unreadable"
    /\ fnOut[1].r.rec.requested
    /\ fnOut[1].r.ok
    /\ fnOut[1].r.contents = fnOut[1].resp.body

----------------------------------------------------------------------------
(* Claims about concurrent invocations *)

\* C19: when invocations sharing a cache directory render the same key, every
\* lookup that hits returns the complete bytes of the service's response for the
\* key, all invocations that succeed return the same bytes, and once all are
\* done the file stored under the key holds the complete response.
C19_BenignRace ==
    /\ \A p \in Invocations :
          (procs[p].at = "done" /\ procs[p].hit) => procs[p].bytes = fnArgs.body
    /\ \A p, q \in Invocations :
          (procs[p].at = "done" /\ procs[p].ok /\ procs[q].at = "done" /\ procs[q].ok)
              => procs[p].bytes = procs[q].bytes
    /\ ((\A p \in Invocations : procs[p].at = "done") /\ RacePath \in DOMAIN cache)
          => cache[RacePath].bytes = fnArgs.body

----------------------------------------------------------------------------
(* Claims about sequential runs *)

\* C20: no render deletes a cache file or rewrites one that can be read; an
\* entry holds the bytes a render returned from its path ever after, and every
\* later render of that path returns them from the cache.
C20_EntriesAreKept ==
    /\ [][\A p \in DOMAIN cache :
            /\ p \in DOMAIN cache'
            /\ cache[p].readable => cache'[p] = cache[p]]_vars
    /\ [](\A i \in 1..Len(log) :
            (log[i].r.ok /\ cache[log[i].r.path].readable) =>
                /\ cache[log[i].r.path].bytes = log[i].r.bytes
                /\ \A j \in (i + 1)..Len(log) :
                      log[j].r.path = log[i].r.path =>
                          /\ log[j].r.hit
                          /\ ~log[j].r.wrote
                          /\ log[j].r.bytes = log[i].r.bytes)

\* C20 witness: a render created an entry, and the next render of its path got
\* the entry's bytes, which the file still holds
C20_Witness ==
    /\ Len(log) = 2
    /\ log[1].r.wrote
    /\ log[2].r.path = log[1].r.path
    /\ log[2].r.hit
    /\ cache[log[1].r.path].bytes = log[1].r.bytes
    /\ log[2].r.bytes = log[1].r.bytes

\* the payload the i-th render of the runs sends when it has to ask the service
PayloadOf(i) ==
    Request(log[i].a.diagram, log[i].a.type, CfgOf(log[i].a), log[i].a.rend)

\* C21: the cache key covers the whole request: a render that hits an entry
\* written by an earlier render, of this run or of another with another
\* renderer or another case of the tag, would have sent the payload that the
\* entry was rendered from.
C21_KeyCoversPayload ==
    \A i, j \in 1..Len(log) :
        (/\ i < j
         /\ log[i].r.wrote
         /\ log[j].r.hit
         /\ log[j].r.path = log[i].r.path)
            => PayloadOf(j) = log[i].r.req

====
